---- MODULE Spec2Model ----
(***************************************************************************)
(* Model of package mp4read (src/mp4read.go): the reader object Mp4read,   *)
(* its sample cursor (NextSample), its keyframe seek (Seek), the track     *)
(* selection (SetVideoTrack) and the initialisation (Initialize,           *)
(* loadTrackInfo).  The container library (go-mp4) is the environment: it  *)
(* supplies the probed tracks, the extracted boxes and the IDR scan.       *)
(***************************************************************************)
EXTENDS Integers, Sequences, FiniteSets, TLC

(***************************************************************************)
(* Bounds of the explored inputs.                                          *)
(***************************************************************************)
MaxSamples == 3
MaxChunks == 2
PerChunk == 2
MaxTarget == 5
MaxBefore == 1
MaxSwitchSamples == 2

\* starttime := 2147483647 in Initialize
StartSentinel == 2147483647

VARIABLES
  probe,      \* v.probe: the probed container (tracks) with its boxes and media
  track,      \* v.track: index into probe.Tracks, 0 for nil
  read,       \* v.read: the cursor, an mp4videoRead
  spspps,     \* v.spspps
  stss,       \* v.stss
  starttime,  \* v._starttime
  last,       \* the last call: what it returned, and for NextSample the
              \* caller's VideoSampleInfo as the call left it
  hist,       \* Numbers yielded since the cursor was last positioned
  origin,     \* how the cursor was last positioned: "start", "seek", "stale"
  eos         \* NextSample has returned ErrEndOfStream since then

vars == <<probe, track, read, spspps, stss, starttime, last, hist, origin, eos>>

(***************************************************************************)
(* Helpers on sets and sequences.                                          *)
(***************************************************************************)
SeqsUpTo(S, n) == UNION {[1..k -> S] : k \in 0..n}

RECURSIVE SumOver(_, _, _)
\* sum of f[i] for i in lo..hi
SumOver(f, lo, hi) == IF lo > hi THEN 0 ELSE f[lo] + SumOver(f, lo + 1, hi)

SetMin(S) == CHOOSE x \in S : \A y \in S : x <= y

RECURSIVE Ascending(_)
\* the elements of a finite set of integers, ascending
Ascending(S) == IF S = {} THEN <<>> ELSE <<SetMin(S)>> \o Ascending(S \ {SetMin(S)})

Range(s) == {s[i] : i \in DOMAIN s}

(***************************************************************************)
(* The input: one container.  A media sample is what the sample tables and *)
(* the media data say about it; Sync says that the keyframe-index box      *)
(* lists it and, for a sample with data, that its data is an IDR picture.  *)
(***************************************************************************)
MediaKinds ==
  { [Size |-> 2, TimeDelta |-> 1, CompositionTimeOffset |-> 0, Sync |-> TRUE],
    [Size |-> 3, TimeDelta |-> 1, CompositionTimeOffset |-> 2, Sync |-> FALSE],
    [Size |-> 0, TimeDelta |-> 2, CompositionTimeOffset |-> 1, Sync |-> FALSE] }

\* mp4.Sample
Sample(m) == [Size |-> m.Size, TimeDelta |-> m.TimeDelta,
              CompositionTimeOffset |-> m.CompositionTimeOffset]

\* mp4.Chunk number c (from 1) of track id, PerChunk samples in each chunk
Chunk(id, c) == [DataOffset |-> 100 * id + 10 * c, SamplesPerChunk |-> PerChunk]

ChunkTable(id, k) == [c \in 1..k |-> Chunk(id, c)]

\* mp4.Track
Track(id, avc, chunks, media) ==
  [TrackID |-> id,
   AVC |-> [nil |-> ~avc, LengthSize |-> IF avc THEN 4 ELSE 0],
   Chunks |-> chunks,
   Samples |-> [i \in DOMAIN media |-> Sample(media[i])]]

\* one extracted box: a Tkhd (TrackID), a Stss (SampleNumber) or an avcC
\* (its parameter sets' NAL units, SPS then PPS)
Box(type, id, numbers, nals) ==
  [Type |-> type, TrackID |-> id, SampleNumber |-> numbers, NALUnits |-> nals]

SyncNumbers(media) == Ascending({i \in DOMAIN media : media[i].Sync})

\* what mp4.FindIDRFrames finds in the media data: 0-based, ascending
IDRFrames(media) ==
  Ascending({i - 1 : i \in {j \in DOMAIN media : media[j].Sync /\ media[j].Size > 0}})

\* the boxes of one video track; the Stss is there when the track has keyframes
TrackBoxes(id, media) ==
  <<Box("tkhd", id, <<>>, <<>>)>>
  \o (IF SyncNumbers(media) # <<>>
        THEN <<Box("stss", 0, SyncNumbers(media), <<>>)>> ELSE <<>>)
  \o <<Box("avcC", 0, <<>>, <<10 * id + 1, 10 * id + 2>>)>>

\* the second video track: two samples in one chunk, the second a keyframe
OtherMedia ==
  << [Size |-> 3, TimeDelta |-> 1, CompositionTimeOffset |-> 2, Sync |-> FALSE],
     [Size |-> 2, TimeDelta |-> 1, CompositionTimeOffset |-> 0, Sync |-> TRUE] >>

\* A container: an audio track (1), the video track under study (2), a
\* second video track (3) and a video track without codec configuration (4).
File(media, chunks) ==
  [Tracks |-> << Track(1, FALSE, <<>>, <<>>),
                 Track(2, TRUE, chunks, media),
                 Track(3, TRUE, ChunkTable(3, 1), OtherMedia),
                 Track(4, TRUE, <<>>, <<>>) >>,
   Boxes |-> <<Box("tkhd", 1, <<>>, <<>>), Box("stss", 0, <<1>>, <<>>)>>
             \o TrackBoxes(2, media) \o TrackBoxes(3, OtherMedia)
             \o <<Box("tkhd", 4, <<>>, <<>>)>>,
   IDR |-> <<<<>>, IDRFrames(media), IDRFrames(OtherMedia), <<>>>>]

Files ==
  {File(media, ChunkTable(2, k)) :
     media \in SeqsUpTo(MediaKinds, MaxSamples), k \in 0..MaxChunks}

\* the containers of the sessions that change the track
SwitchFiles ==
  {File(media, ChunkTable(2, MaxChunks)) :
     media \in SeqsUpTo(MediaKinds, MaxSwitchSamples)}

Targets == (0 - MaxBefore)..MaxTarget

TrackIDs == {-1, 1, 3, 4}

(***************************************************************************)
(* The reader's state.                                                     *)
(***************************************************************************)
\* the zero value of mp4videoRead
ZeroRead == [chunkIdx |-> 0, sampleIdx |-> 0, sampleEnd |-> 0,
             decodingTime |-> 0, dataOffset |-> 0]

\* the zero value of VideoSampleInfo
ZeroInfo == [offset |-> 0, size |-> 0, NalLengthSize |-> 0, TimeDelta |-> 0,
             Number |-> 0, CompositionTime |-> 0]

\* a nil slice, and a slice that is not nil
NilSlice == [nil |-> TRUE, v |-> <<>>]
Slice(s) == [nil |-> FALSE, v |-> s]

\* a call and what it returned; from: the track selected when it was made
Result(op, err, moved, force, info) ==
  [op |-> op, err |-> err, moved |-> moved, force |-> force, out |-> info,
   from |-> track]

Selected == probe.Tracks[track]

(***************************************************************************)
(* SetVideoTrack: the first track with AVC whose id matches (any, for -1). *)
(***************************************************************************)
RECURSIVE FindVideoTrack(_, _, _)
FindVideoTrack(tracks, id, i) ==
  IF i > Len(tracks) THEN 0
  ELSE IF tracks[i].AVC.nil THEN FindVideoTrack(tracks, id, i + 1)
  ELSE IF id # -1 /\ id # tracks[i].TrackID THEN FindVideoTrack(tracks, id, i + 1)
  ELSE i

(***************************************************************************)
(* NextSample: the two loops over chunks and samples.  The result is the   *)
(* cursor and the caller's record as the call leaves them, and the error.  *)
(***************************************************************************)
\* NextSample's loops with one slip: "one-based" numbers the samples from 1,
\* "keeps end" leaves sampleEnd set at the end of a chunk
RECURSIVE NextLoopSlip(_, _, _, _, _)
NextLoopSlip(slip, trk, st, r, o) ==
  IF r.chunkIdx < Len(trk.Chunks)
  THEN LET chunk == trk.Chunks[r.chunkIdx + 1]
           r1 == IF r.sampleEnd = 0
                 THEN [r EXCEPT !.sampleEnd = r.sampleIdx + chunk.SamplesPerChunk,
                                !.dataOffset = chunk.DataOffset]
                 ELSE r
       IN IF r1.sampleIdx < r1.sampleEnd /\ r1.sampleIdx < Len(trk.Samples)
          THEN LET sample == trk.Samples[r1.sampleIdx + 1]
                   o1 == [o EXCEPT !.offset = r1.dataOffset,
                                   !.size = sample.Size,
                                   !.CompositionTime =
                                      r1.decodingTime + sample.CompositionTimeOffset - st,
                                   !.Number = IF slip = "one-based" THEN r1.sampleIdx + 1
                                              ELSE r1.sampleIdx,
                                   !.TimeDelta = sample.TimeDelta]
                   r2 == [r1 EXCEPT !.sampleIdx = @ + 1,
                                    !.dataOffset = @ + sample.Size,
                                    !.decodingTime = @ + sample.TimeDelta]
               IN IF sample.Size > 0
                  THEN [read |-> r2, out |-> o1, err |-> "nil"]
                  ELSE NextLoopSlip(slip, trk, st, r2, o1)
          ELSE NextLoopSlip(slip, trk, st,
                            [r1 EXCEPT !.sampleEnd = IF slip = "keeps end" THEN @ ELSE 0,
                                       !.chunkIdx = @ + 1], o)
  ELSE [read |-> r, out |-> o, err |-> "end of stream"]

NextLoopOneBased(trk, st, r, o) == NextLoopSlip("one-based", trk, st, r, o)
NextLoopKeepsEnd(trk, st, r, o) == NextLoopSlip("keeps end", trk, st, r, o)

RECURSIVE NextLoop(_, _, _, _)
NextLoop(trk, st, r, o) ==
  IF r.chunkIdx < Len(trk.Chunks)
  THEN LET chunk == trk.Chunks[r.chunkIdx + 1]
           r1 == IF r.sampleEnd = 0
                 THEN [r EXCEPT !.sampleEnd = r.sampleIdx + chunk.SamplesPerChunk,
                                !.dataOffset = chunk.DataOffset]
                 ELSE r
       IN IF r1.sampleIdx < r1.sampleEnd /\ r1.sampleIdx < Len(trk.Samples)
          THEN LET sample == trk.Samples[r1.sampleIdx + 1]
                   o1 == [o EXCEPT !.offset = r1.dataOffset,
                                   !.size = sample.Size,
                                   !.CompositionTime =
                                      r1.decodingTime + sample.CompositionTimeOffset - st,
                                   !.Number = r1.sampleIdx,
                                   !.TimeDelta = sample.TimeDelta]
                   r2 == [r1 EXCEPT !.sampleIdx = @ + 1,
                                    !.dataOffset = @ + sample.Size,
                                    !.decodingTime = @ + sample.TimeDelta]
               IN IF sample.Size > 0
                  THEN [read |-> r2, out |-> o1, err |-> "nil"]
                  ELSE NextLoop(trk, st, r2, o1)
          ELSE NextLoop(trk, st, [r1 EXCEPT !.sampleEnd = 0, !.chunkIdx = @ + 1], o)
  ELSE [read |-> r, out |-> o, err |-> "end of stream"]

NextSampleCall(trk, st, r, o) ==
  NextLoop(trk, st, r, [o EXCEPT !.NalLengthSize = trk.AVC.LengthSize])

\* the caller passes a fresh VideoSampleInfo
NextSample ==
  IF track = 0
  THEN /\ last' = Result("NextSample", "video track not found", FALSE, FALSE, ZeroInfo)
       /\ UNCHANGED <<probe, track, read, spspps, stss, starttime, hist, origin, eos>>
  ELSE LET res == NextSampleCall(Selected, starttime, read, ZeroInfo)
       IN /\ read' = res.read
          /\ last' = Result("NextSample", res.err, FALSE, FALSE, res.out)
          /\ hist' = IF res.err = "nil" THEN Append(hist, res.out.Number) ELSE hist
          /\ eos' = (eos \/ res.err = "end of stream")
          /\ UNCHANGED <<probe, track, spspps, stss, starttime, origin>>

(***************************************************************************)
(* NewFromReadSeeker: the probed container, SetVideoTrack(-1) done.        *)
(***************************************************************************)
Init ==
  /\ probe \in Files
  /\ track = FindVideoTrack(probe.Tracks, -1, 1)
  /\ read = ZeroRead
  /\ spspps = NilSlice
  /\ stss = NilSlice
  /\ starttime = 0
  /\ last = [op |-> "New", err |-> "nil", moved |-> FALSE, force |-> FALSE,
             out |-> ZeroInfo, from |-> 0]
  /\ hist = <<>>
  /\ origin = "start"
  /\ eos = FALSE

(***************************************************************************)
(* Seek: the scan over chunks and samples for the sample that covers ts    *)
(* (the timestamp, _starttime added), remembering the last keyframe passed.*)
(* The result says whether a sample matched (found), which (m), the        *)
(* keyframe position remembered then (idr), and what Seek returns.         *)
(***************************************************************************)
RECURSIVE SeekSamples(_, _, _, _, _, _, _, _, _, _, _)
RECURSIVE SeekChunks(_, _, _, _, _, _, _, _, _)

\* the match of Seek with the suppression ending one sample early
SeekMatchShort(force, cur, sampleIndex, idr) ==
  IF ~force /\ idr.sampleIdx <= cur.sampleIdx /\ cur.sampleIdx <= sampleIndex
  THEN [found |-> TRUE, moved |-> FALSE, read |-> cur, m |-> sampleIndex, idr |-> idr]
  ELSE [found |-> TRUE, moved |-> TRUE, read |-> idr, m |-> sampleIndex, idr |-> idr]

\* the match of Seek with the suppression applied whatever force is
SeekMatchIgnoresForce(force, cur, sampleIndex, idr) ==
  IF idr.sampleIdx <= cur.sampleIdx /\ cur.sampleIdx <= sampleIndex + 1
  THEN [found |-> TRUE, moved |-> FALSE, read |-> cur, m |-> sampleIndex, idr |-> idr]
  ELSE [found |-> TRUE, moved |-> TRUE, read |-> idr, m |-> sampleIndex, idr |-> idr]

\* the match of Seek with the sense of force inverted
SeekMatchForceInverted(force, cur, sampleIndex, idr) ==
  IF force /\ idr.sampleIdx <= cur.sampleIdx /\ cur.sampleIdx <= sampleIndex + 1
  THEN [found |-> TRUE, moved |-> FALSE, read |-> cur, m |-> sampleIndex, idr |-> idr]
  ELSE [found |-> TRUE, moved |-> TRUE, read |-> idr, m |-> sampleIndex, idr |-> idr]

\* the match of Seek with the cursor assigned before the suppression test
SeekMatchCommits(force, cur, sampleIndex, idr) ==
  IF ~force /\ idr.sampleIdx <= cur.sampleIdx /\ cur.sampleIdx <= sampleIndex + 1
  THEN [found |-> TRUE, moved |-> FALSE, read |-> idr, m |-> sampleIndex, idr |-> idr]
  ELSE [found |-> TRUE, moved |-> TRUE, read |-> idr, m |-> sampleIndex, idr |-> idr]

\* a Seek that commits the matched sample's index with the keyframe's chunk
SeekMatchAtMatch(force, cur, sampleIndex, idr) ==
  IF ~force /\ idr.sampleIdx <= cur.sampleIdx /\ cur.sampleIdx <= sampleIndex + 1
  THEN [found |-> TRUE, moved |-> FALSE, read |-> cur, m |-> sampleIndex, idr |-> idr]
  ELSE [found |-> TRUE, moved |-> TRUE, read |-> [idr EXCEPT !.sampleIdx = sampleIndex],
        m |-> sampleIndex, idr |-> idr]

SeekMatch(force, cur, sampleIndex, idr) ==
  IF ~force /\ idr.sampleIdx <= cur.sampleIdx /\ cur.sampleIdx <= sampleIndex + 1
  THEN [found |-> TRUE, moved |-> FALSE, read |-> cur, m |-> sampleIndex, idr |-> idr]
  ELSE [found |-> TRUE, moved |-> TRUE, read |-> idr, m |-> sampleIndex, idr |-> idr]

SeekSamples(trk, keys, ts, force, cur, chunkIndex, end, offset, sampleIndex, stssIdx, acc) ==
  IF sampleIndex < end /\ sampleIndex < Len(trk.Samples)
  THEN LET sample == trk.Samples[sampleIndex + 1]
       IN IF sample.Size = 0
          THEN SeekSamples(trk, keys, ts, force, cur, chunkIndex, end, offset,
                           sampleIndex + 1, stssIdx, acc)
          ELSE LET key == stssIdx < Len(keys) /\ keys[stssIdx + 1] = sampleIndex + 1
                   idr == IF key
                          THEN [chunkIdx |-> chunkIndex - 1, sampleIdx |-> sampleIndex,
                                sampleEnd |-> end, decodingTime |-> acc.decodingTime,
                                dataOffset |-> offset]
                          ELSE acc.idr
                   decodingTime == acc.decodingTime + sample.TimeDelta
               IN IF ts < decodingTime + sample.CompositionTimeOffset
                  THEN SeekMatch(force, cur, sampleIndex, idr)
                  ELSE SeekSamples(trk, keys, ts, force, cur, chunkIndex, end,
                                   offset + sample.Size, sampleIndex + 1,
                                   IF key THEN stssIdx + 1 ELSE stssIdx,
                                   [decodingTime |-> decodingTime, idr |-> idr])
  ELSE SeekChunks(trk, keys, ts, force, cur, chunkIndex + 1, sampleIndex, stssIdx, acc)

\* chunkIndex counts the chunks from 1 here; the code's chunkIndex is one less
SeekChunks(trk, keys, ts, force, cur, chunkIndex, sampleIndex, stssIdx, acc) ==
  IF chunkIndex <= Len(trk.Chunks)
  THEN LET chunk == trk.Chunks[chunkIndex]
       IN SeekSamples(trk, keys, ts, force, cur, chunkIndex,
                      sampleIndex + chunk.SamplesPerChunk, chunk.DataOffset,
                      sampleIndex, stssIdx, acc)
  ELSE [found |-> FALSE, moved |-> FALSE, read |-> cur, m |-> -1, idr |-> acc.idr]

SeekScan(trk, keys, ts, force, cur) ==
  SeekChunks(trk, keys, ts, force, cur, 1, 0, 0,
             [decodingTime |-> 0, idr |-> ZeroRead])

\* v.stss as Seek uses it: built from the IDR scan when it is nil
BuildStss(idrframes) == Slice([i \in DOMAIN idrframes |-> idrframes[i] + 1])

\* Seek with the keyframe scan run on every call
SeekCallRescans(trk, idrframes, scanFails, keys, st, cur, timestamp, force) ==
  IF scanFails
  THEN [read |-> cur, stss |-> keys, moved |-> FALSE, err |-> "scan failed"]
  ELSE LET built == BuildStss(idrframes)
           res == SeekScan(trk, built.v, timestamp + st, force, cur)
       IN [read |-> res.read, stss |-> built, moved |-> res.moved,
           err |-> IF res.found THEN "nil" ELSE "out of range"]

\* Seek(timestamp, force) on track trk; scanFails: mp4.FindIDRFrames returns an error
SeekCall(trk, idrframes, scanFails, keys, st, cur, timestamp, force) ==
  IF keys.nil /\ scanFails
  THEN [read |-> cur, stss |-> keys, moved |-> FALSE, err |-> "scan failed"]
  ELSE LET built == IF keys.nil THEN BuildStss(idrframes) ELSE keys
           res == SeekScan(trk, built.v, timestamp + st, force, cur)
       IN [read |-> res.read, stss |-> built, moved |-> res.moved,
           err |-> IF res.found THEN "nil" ELSE "out of range"]

Seek(timestamp, force, scanFails) ==
  IF track = 0
  THEN /\ last' = Result("Seek", "track not found", FALSE, force, ZeroInfo)
       /\ UNCHANGED <<probe, track, read, spspps, stss, starttime, hist, origin, eos>>
  ELSE LET res == SeekCall(Selected, probe.IDR[track], scanFails, stss, starttime,
                           read, timestamp, force)
       IN /\ read' = res.read
          /\ stss' = res.stss
          /\ last' = Result("Seek", res.err, res.moved, force, ZeroInfo)
          /\ hist' = IF res.moved THEN <<>> ELSE hist
          /\ origin' = IF res.moved THEN "seek" ELSE origin
          /\ eos' = IF res.moved THEN FALSE ELSE eos
          /\ UNCHANGED <<probe, track, spspps, starttime>>

(***************************************************************************)
(* loadTrackInfo: the boxes in order, those after the target's Tkhd kept.  *)
(***************************************************************************)
RECURSIVE LoadBoxesStickyTarget(_, _, _, _, _, _)
\* the loop of loadTrackInfo with the target flag never cleared once set
LoadBoxesStickyTarget(boxes, trackid, i, target, keys, sets) ==
  IF i > Len(boxes)
  THEN [stss |-> keys, spspps |-> sets,
        err |-> IF sets.nil THEN "avcC not found" ELSE "nil"]
  ELSE LET bip == boxes[i]
       IN IF bip.Type = "tkhd"
          THEN LoadBoxesStickyTarget(boxes, trackid, i + 1,
                                     target \/ bip.TrackID = trackid, keys, sets)
          ELSE IF bip.Type = "stss" /\ target
          THEN LoadBoxesStickyTarget(boxes, trackid, i + 1, target,
                                     Slice(bip.SampleNumber), sets)
          ELSE IF bip.Type = "avcC" /\ target
          THEN LoadBoxesStickyTarget(boxes, trackid, i + 1, target, keys,
                                     Slice(bip.NALUnits))
          ELSE LoadBoxesStickyTarget(boxes, trackid, i + 1, target, keys, sets)

RECURSIVE LoadBoxes(_, _, _, _, _, _)
LoadBoxes(boxes, trackid, i, target, keys, sets) ==
  IF i > Len(boxes)
  THEN [stss |-> keys, spspps |-> sets,
        err |-> IF sets.nil THEN "avcC not found" ELSE "nil"]
  ELSE LET bip == boxes[i]
       IN IF bip.Type = "tkhd"
          THEN LoadBoxes(boxes, trackid, i + 1, bip.TrackID = trackid, keys, sets)
          ELSE IF bip.Type = "stss" /\ target
          THEN LoadBoxes(boxes, trackid, i + 1, target, Slice(bip.SampleNumber), sets)
          ELSE IF bip.Type = "avcC" /\ target
          THEN LoadBoxes(boxes, trackid, i + 1, target, keys, Slice(bip.NALUnits))
          ELSE LoadBoxes(boxes, trackid, i + 1, target, keys, sets)

loadTrackInfo(boxes, trackid, extractFails, keys, sets) ==
  IF extractFails
  THEN [stss |-> keys, spspps |-> sets, err |-> "extract failed"]
  ELSE LoadBoxes(boxes, trackid, 1, FALSE, keys, sets)

(***************************************************************************)
(* Initialize: loadTrackInfo, then the start time of the first samples.    *)
(***************************************************************************)
Min(a, b) == IF a < b THEN a ELSE b

RECURSIVE StartTimeLoopDeltaFirst(_, _, _, _)
\* the loop of Initialize with the delta added before the minimum is taken
StartTimeLoopDeltaFirst(samples, i, start, decodingTime) ==
  IF i > Len(samples) THEN start
  ELSE LET sample == samples[i]
           start1 == Min(start, decodingTime + sample.TimeDelta
                                + sample.CompositionTimeOffset)
       IN IF sample.CompositionTimeOffset = 0 THEN start1
          ELSE StartTimeLoopDeltaFirst(samples, i + 1, start1,
                                       decodingTime + sample.TimeDelta)

RECURSIVE StartTimeLoop(_, _, _, _)
StartTimeLoop(samples, i, start, decodingTime) ==
  IF i > Len(samples) THEN start
  ELSE LET sample == samples[i]
           start1 == Min(start, decodingTime + sample.CompositionTimeOffset)
       IN IF sample.CompositionTimeOffset = 0 THEN start1
          ELSE StartTimeLoop(samples, i + 1, start1, decodingTime + sample.TimeDelta)

\* v._starttime after the loop of Initialize, st before it
StartTime(samples, st) ==
  LET start == StartTimeLoop(samples, 1, StartSentinel, 0)
  IN IF start # StartSentinel THEN start ELSE st

Initialize(extractFails) ==
  IF track = 0
  THEN /\ last' = Result("Initialize", "video track not found", FALSE, FALSE, ZeroInfo)
       /\ UNCHANGED <<probe, track, read, spspps, stss, starttime, hist, origin, eos>>
  ELSE LET res == loadTrackInfo(probe.Boxes, Selected.TrackID, extractFails, stss, spspps)
       IN /\ stss' = res.stss
          /\ spspps' = res.spspps
          /\ starttime' = IF res.err = "nil" THEN StartTime(Selected.Samples, starttime)
                          ELSE starttime
          /\ last' = Result("Initialize", res.err, FALSE, FALSE, ZeroInfo)
          /\ UNCHANGED <<probe, track, read, hist, origin, eos>>

(***************************************************************************)
(* SetVideoTrack.  The cursor and _starttime are not among its assignments.*)
(***************************************************************************)
SetVideoTrackCall(tracks, id, cur, st) ==
  LET found == FindVideoTrack(tracks, id, 1)
  IN [track |-> found, stss |-> NilSlice, spspps |-> NilSlice, read |-> cur,
      starttime |-> st,
      err |-> IF found # 0 THEN "nil" ELSE "video track not found"]

SetVideoTrack(id) ==
  LET res == SetVideoTrackCall(probe.Tracks, id, read, starttime)
  IN /\ track' = res.track
     /\ stss' = res.stss
     /\ spspps' = res.spspps
     /\ read' = res.read
     /\ starttime' = res.starttime
     /\ last' = Result("SetVideoTrack", res.err, FALSE, FALSE, ZeroInfo)
     /\ hist' = IF res.track = track THEN hist ELSE <<>>
     /\ origin' = IF res.track = track THEN origin
                  ELSE IF res.read = ZeroRead THEN "start" ELSE "stale"
     /\ eos' = IF res.track = track THEN eos ELSE FALSE
     /\ UNCHANGED probe

(***************************************************************************)
(* Specifications.  SpecTrack: the sessions on the track the constructor   *)
(* selected.  Spec: the sessions that also select tracks, at any time.     *)
(***************************************************************************)
\* whether mp4.FindIDRFrames returns an error, for the calls that reach it
ScanOutcomes == IF stss.nil THEN BOOLEAN ELSE {FALSE}

InitSwitch == Init /\ probe \in SwitchFiles

NextTrack ==
  \/ NextSample
  \/ \E timestamp \in Targets, force \in BOOLEAN, scanFails \in ScanOutcomes :
       Seek(timestamp, force, scanFails)
  \/ \E extractFails \in BOOLEAN : Initialize(extractFails)

Next ==
  \/ NextSample
  \/ \E timestamp \in Targets, force \in BOOLEAN, scanFails \in ScanOutcomes :
       Seek(timestamp, force, scanFails)
  \/ \E extractFails \in BOOLEAN : Initialize(extractFails)
  \/ \E id \in TrackIDs : SetVideoTrack(id)

\* the sessions of Next with the outcome of the keyframe scan chosen for every
\* Seek, so that a scan run with an index in place would show
NextScan ==
  \/ NextSample
  \/ \E timestamp \in Targets, force \in BOOLEAN, scanFails \in BOOLEAN :
       Seek(timestamp, force, scanFails)
  \/ \E extractFails \in BOOLEAN : Initialize(extractFails)
  \/ \E id \in TrackIDs : SetVideoTrack(id)

SpecTrack == Init /\ [][NextTrack]_vars

SpecScan == InitSwitch /\ [][NextScan]_vars

Spec == InitSwitch /\ [][Next]_vars

(***************************************************************************)
(* What the claims speak of.                                               *)
(***************************************************************************)
\* what NextSample would return from cursor r on the selected track
NextOf(r) == NextSampleCall(Selected, starttime, r, ZeroInfo)

RECURSIVE ReadAll(_, _, _)
\* the records repeated NextSample yields from cursor r, up to the end of stream
ReadAll(trk, st, r) ==
  LET res == NextSampleCall(trk, st, r, ZeroInfo)
  IN IF res.err = "nil" THEN <<res.out>> \o ReadAll(trk, st, res.read) ELSE <<>>

\* the records of a fresh sequential read of the selected track
FreshRead == ReadAll(Selected, starttime, ZeroRead)

\* the records of s whose sample number is n or more
FromNumber(s, n) == SelectSeq(s, LAMBDA rec : rec.Number >= n)

\* the number of samples the chunk table covers
Covered(trk) ==
  Min(Len(trk.Samples),
      SumOver([c \in DOMAIN trk.Chunks |-> trk.Chunks[c].SamplesPerChunk],
              1, Len(trk.Chunks)))

\* the 0-based numbers of the samples with data that the chunk table covers
NonZeroCovered(trk) ==
  Ascending({i \in 0..(Covered(trk) - 1) : trk.Samples[i + 1].Size > 0})

\* the sum of the decode-time deltas of samples lo..hi (0-based)
Deltas(trk, lo, hi) ==
  SumOver([i \in DOMAIN trk.Samples |-> trk.Samples[i].TimeDelta], lo + 1, hi + 1)

\* the step is a Seek(timestamp, force)
SeekStep(timestamp, force) ==
  /\ last'.op = "Seek" /\ last'.force = force
  /\ \E scanFails \in ScanOutcomes : Seek(timestamp, force, scanFails)

\* the last call was a Seek that returned (moved, nil)
SeekMoved == last.op = "Seek" /\ last.err = "nil" /\ last.moved

\* the last call was a NextSample that returned nil
Yielded == last.op = "NextSample" /\ last.err = "nil"

(***************************************************************************)
(* C1: after Seek(t, true) has succeeded, the next sample NextSample       *)
(* yields has a composition timestamp <= t and is a keyframe: its number,  *)
(* counted from 1, is an entry of the keyframe index.  Stated for the     *)
(* targets t >= 0 and the keyframe indexes that are not empty.             *)
(***************************************************************************)
C1_SeekLandsOnKeyframe ==
  [][\A t \in Targets :
       (track # 0 /\ SeekStep(t, TRUE) /\ last'.err = "nil" /\ last'.moved
        /\ t >= 0 /\ stss'.v # <<>>)
       => LET nxt == NextSampleCall(Selected, starttime, read', ZeroInfo)
          IN nxt.err = "nil"
             => /\ nxt.out.CompositionTime <= t
                /\ (nxt.out.Number + 1) \in Range(stss'.v)]_vars

(***************************************************************************)
(* C2: after Seek(t, true) has succeeded, repeated NextSample yields the   *)
(* records that a fresh sequential read yields from that sample onward.    *)
(***************************************************************************)
C2_SeekRoundTrip ==
  (SeekMoved /\ last.force)
  => ReadAll(Selected, starttime, read) = FromNumber(FreshRead, read.sampleIdx)

(***************************************************************************)
(* C3: Seek(t, false) with the cursor in the group of pictures covering t  *)
(* returns moved = false and leaves the next NextSample output as it was.  *)
(* The group of pictures: from the keyframe Seek resolves t to, up to the  *)
(* next entry of the keyframe index, or the end of the samples; the cursor *)
(* is in it when the sample it is at is one of these and has data.         *)
(***************************************************************************)
\* the scan of Seek(t, false) from the state, with the index it would use
ScanFor(t) ==
  SeekScan(Selected, (IF stss.nil THEN BuildStss(probe.IDR[track]) ELSE stss).v,
           t + starttime, FALSE, read)

NextKeyframe(keys, k, n) ==
  LET later == {x - 1 : x \in {y \in Range(keys) : y - 1 > k}}
  IN IF later = {} THEN n ELSE SetMin(later)

\* the cursor is in the group of pictures of the keyframe Seek resolves t to
InGroupOfPictures(t) ==
  LET res == ScanFor(t)
      keys == (IF stss.nil THEN BuildStss(probe.IDR[track]) ELSE stss).v
      k == res.idr.sampleIdx
  IN /\ res.found
     /\ (k + 1) \in Range(keys)
     /\ k <= read.sampleIdx
     /\ read.sampleIdx < NextKeyframe(keys, k, Len(Selected.Samples))
     /\ read.sampleIdx \in Range(NonZeroCovered(Selected))

\* the cursor is between the candidate keyframe and the sample after the match
InSuppressedRange(t) ==
  LET res == ScanFor(t)
  IN /\ res.found
     /\ res.idr.sampleIdx <= read.sampleIdx
     /\ read.sampleIdx <= res.m + 1

Suppressed == /\ last'.err = "nil"
              /\ ~last'.moved
              /\ NextSampleCall(Selected, starttime, read', ZeroInfo) = NextOf(read)

\* C3 as claimed
C3_SuppressedInGroupOfPictures ==
  [][\A t \in Targets :
       (track # 0 /\ SeekStep(t, FALSE) /\ last'.err # "scan failed"
        /\ InGroupOfPictures(t)) => Suppressed]_vars

\* C3 as amended: Seek(t, false) returns moved = false and leaves the next
\* NextSample output as it was whenever the cursor's sampleIndex lies from the
\* candidate keyframe position's sampleIndex to the matched sample's index + 1.
C3_SuppressedUpToMatch ==
  [][\A t \in Targets :
       (track # 0 /\ SeekStep(t, FALSE) /\ last'.err # "scan failed"
        /\ InSuppressedRange(t)) => Suppressed]_vars

C3_Witness ==
  /\ last.op = "Seek" /\ last.err = "nil" /\ ~last.moved /\ ~last.force
  /\ read.sampleIdx > 1

(***************************************************************************)
(* C4: a Seek that returns an error, or moved = false, leaves the five     *)
(* fields of the cursor as they were.                                      *)
(***************************************************************************)
C4_FailedSeekKeepsCursor ==
  [][(last'.op = "Seek" /\ (last'.err # "nil" \/ ~last'.moved)) => read' = read]_vars

C4_Witness ==
  /\ last.op = "Seek" /\ last.err = "out of range" /\ read # ZeroRead

(***************************************************************************)
(* C5: NextSample never returns nil with a record of size 0, and the       *)
(* composition timestamp of a yielded record holds the decode-time delta   *)
(* of every zero-size sample before it: it is the sum of the deltas of all *)
(* earlier samples plus the sample's composition offset, less _starttime.  *)
(***************************************************************************)
C5_ZeroSizeSkipped ==
  Yielded
  => LET o == last.out
         samples == Selected.Samples
     IN /\ o.size # 0
        /\ o.CompositionTime =
             Deltas(Selected, 0, o.Number - 1)
             + samples[o.Number + 1].CompositionTimeOffset - starttime

\* One NextSample call by itself keeps the deltas: the samples it passes have
\* size 0 and their deltas are in the timestamp it yields and in the cursor.
NextSampleKeepsDeltas ==
  [][(last'.op = "NextSample" /\ last'.err = "nil")
     => LET o == last'.out
            samples == Selected.Samples
        IN /\ o.size = samples[o.Number + 1].Size
           /\ \A i \in read.sampleIdx..(o.Number - 1) : samples[i + 1].Size = 0
           /\ o.CompositionTime =
                read.decodingTime + Deltas(Selected, read.sampleIdx, o.Number - 1)
                + samples[o.Number + 1].CompositionTimeOffset - starttime
           /\ read'.decodingTime =
                read.decodingTime + Deltas(Selected, read.sampleIdx, o.Number)]_vars

(***************************************************************************)
(* C6: in a run of NextSample calls with no Seek between them, the Number  *)
(* of each yielded sample is 1 more than the Number of the one before.     *)
(***************************************************************************)
\* C6 as claimed
C6_NumbersStepByOne ==
  \A i \in 1..(Len(hist) - 1) : hist[i + 1] = hist[i] + 1

\* C6 as amended: the Number of each yielded sample is more than the Number
\* of the one before by 1 plus the number of zero-size samples skipped
\* between them: every sample between the two has size 0.
C6_NumbersStepOverZeroSize ==
  \A i \in 1..(Len(hist) - 1) :
    /\ hist[i + 1] > hist[i]
    /\ hist[i + 1] < Len(Selected.Samples)
    /\ \A n \in (hist[i] + 1)..(hist[i + 1] - 1) : Selected.Samples[n + 1].Size = 0

C6_Witness ==
  Len(hist) >= 2 /\ hist[2] = hist[1] + 2

(***************************************************************************)
(* C7: the offset of a yielded record is the data offset of the chunk the  *)
(* sample is in plus the sizes of the chunk's samples before it: the first *)
(* sample of a chunk is at the chunk's data offset, the next sample of the *)
(* chunk at the offset of the one before plus its size.                    *)
(***************************************************************************)
\* the chunk (from 1) that holds sample n (from 0): PerChunk samples in each
ChunkOf(trk, n) ==
  CHOOSE c \in DOMAIN trk.Chunks :
    LET first == SumOver([d \in DOMAIN trk.Chunks |-> trk.Chunks[d].SamplesPerChunk],
                         1, c - 1)
    IN first <= n /\ n < first + trk.Chunks[c].SamplesPerChunk

FirstOfChunk(trk, c) ==
  SumOver([d \in DOMAIN trk.Chunks |-> trk.Chunks[d].SamplesPerChunk], 1, c - 1)

OffsetOf(trk, n) ==
  LET c == ChunkOf(trk, n)
  IN trk.Chunks[c].DataOffset
     + SumOver([i \in DOMAIN trk.Samples |-> trk.Samples[i].Size],
               FirstOfChunk(trk, c) + 1, n)

C7_OffsetContinuity ==
  Yielded => last.out.offset = OffsetOf(Selected, last.out.Number)

(***************************************************************************)
(* C8: after Initialize, the least composition timestamp among the samples *)
(* NextSample yields from the first reordering window (the samples up to   *)
(* the first one with composition offset 0) is 0.                          *)
(***************************************************************************)
\* the number (from 0) of the last sample of the window
WindowEnd(samples) ==
  LET zero == {i \in DOMAIN samples : samples[i].CompositionTimeOffset = 0}
  IN IF zero = {} THEN Len(samples) - 1 ELSE SetMin(zero) - 1

C8_WindowStartsAtZero ==
  (last.op = "Initialize" /\ last.err = "nil" /\ read = ZeroRead)
  => LET window == {i \in DOMAIN FreshRead :
                      FreshRead[i].Number <= WindowEnd(Selected.Samples)}
     IN window # {}
        => SetMin({FreshRead[i].CompositionTime : i \in window}) = 0

(***************************************************************************)
(* C9: from the initial cursor, repeated NextSample yields every sample    *)
(* with data that the chunk table covers, once, in ascending order, then   *)
(* returns the end of stream, and returns it again on every further call   *)
(* until a Seek moves the cursor.                                          *)
(***************************************************************************)
IsPrefix(s, t) == Len(s) <= Len(t) /\ s = SubSeq(t, 1, Len(s))

C9_SequentialReadComplete ==
  /\ (track # 0 /\ origin = "start")
     => /\ IsPrefix(hist, NonZeroCovered(Selected))
        /\ eos => hist = NonZeroCovered(Selected)
        /\ hist = NonZeroCovered(Selected) => NextOf(read).err = "end of stream"
  /\ (eos /\ last.op = "NextSample") => last.err = "end of stream"

C9_Witness ==
  /\ origin = "start" /\ eos /\ Len(hist) >= 2
  /\ last.op = "NextSample" /\ hist[2] > hist[1] + 1

(***************************************************************************)
(* C10: after NextSample and Seek calls on a track, a SetVideoTrack that   *)
(* selects another track, followed by Initialize, leaves the cursor in the *)
(* initial state, and the first NextSample yields the new track's first    *)
(* sample with data.                                                       *)
(***************************************************************************)
C10_SetVideoTrackResetsCursor ==
  [][(last.op = "SetVideoTrack" /\ last.err = "nil" /\ last.from \notin {0, track}
      /\ last'.op = "Initialize" /\ last'.err = "nil")
     => /\ read' = ZeroRead
        /\ NextSampleCall(Selected, starttime', read', ZeroInfo)
             = NextSampleCall(Selected, starttime', ZeroRead, ZeroInfo)]_vars

(***************************************************************************)
(* C11: the keyframe scan of Seek runs only while v.stss is nil; when it   *)
(* succeeds its result is stored, not nil also when it is empty: the       *)
(* 0-based numbers of the scan as 1-based numbers, ascending; a Seek that  *)
(* finds v.stss not nil never fails in the scan and leaves v.stss as it    *)
(* is, so the scan succeeds at most once for a track selection; and        *)
(* v.stss becomes nil only in SetVideoTrack.                               *)
(***************************************************************************)
StrictlyAscending(s) == \A i \in 1..(Len(s) - 1) : s[i] < s[i + 1]

C11_KeyframeIndexMemoized ==
  [][/\ (last'.op = "Seek" /\ track # 0 /\ stss.nil /\ last'.err # "scan failed")
        => /\ ~stss'.nil
           /\ stss'.v = [i \in DOMAIN probe.IDR[track] |-> probe.IDR[track][i] + 1]
           /\ StrictlyAscending(stss'.v)
     /\ (last'.op = "Seek" /\ stss.nil /\ last'.err = "scan failed") => stss'.nil
     /\ (last'.op = "Seek" /\ ~stss.nil)
        => (stss' = stss /\ last'.err # "scan failed")
     /\ (~stss.nil /\ stss'.nil) => last'.op = "SetVideoTrack"]_vars

\* the scan found no keyframe, its empty result is stored, and a later Seek
\* has used it
C11_Witness ==
  /\ last.op = "Seek" /\ last.err = "out of range"
  /\ ~stss.nil /\ stss.v = <<>> /\ read # ZeroRead

(***************************************************************************)
(* C12: Seek returns the out-of-range error exactly when no sample with    *)
(* data that the chunk table covers has the adjusted target (the target    *)
(* plus _starttime) below its decode time, its own delta added, plus its   *)
(* composition offset.  The decode time of a sample is the sum of the      *)
(* deltas of the samples up to it, those of size 0 among them.             *)
(***************************************************************************)
\* sample i (0-based) covers the adjusted target ts
Covers(trk, i, ts) ==
  ts < Deltas(trk, 0, i) + trk.Samples[i + 1].CompositionTimeOffset

C12_OutOfRangeExactly ==
  [][\A t \in Targets, f \in BOOLEAN :
       (track # 0 /\ SeekStep(t, f) /\ last'.err # "scan failed")
       => (last'.err = "out of range"
           <=> ~\E i \in Range(NonZeroCovered(Selected)) :
                  Covers(Selected, i, t + starttime))]_vars

(***************************************************************************)
(* C13: a Seek(t, true) whose matching sample precedes the first entry of  *)
(* the keyframe index puts the cursor at the first keyframe of the index.  *)
(***************************************************************************)
\* the index Seek(t, ...) uses from the state: v.stss, built first if nil
IndexInUse == (IF stss.nil THEN BuildStss(probe.IDR[track]) ELSE stss).v

C13_BeforeFirstKeyframe ==
  [][\A t \in Targets :
       LET res == SeekScan(Selected, IndexInUse, t + starttime, TRUE, read)
       IN (track # 0 /\ SeekStep(t, TRUE) /\ last'.err = "nil"
           /\ IndexInUse # <<>> /\ res.found /\ res.m + 1 < IndexInUse[1])
          => read'.sampleIdx = IndexInUse[1] - 1]_vars

(***************************************************************************)
(* The scenario of C14: one track of 3 chunks of 2 samples, every delta    *)
(* 3000, composition offsets 0, 3000, -3000, 0, 3000, -3000.  The first    *)
(* sample is a keyframe; which of the others are is free.                  *)
(***************************************************************************)
ScenarioOffsets == <<0, 3000, -3000, 0, 3000, -3000>>

ScenarioMedia(keyframes) ==
  [i \in DOMAIN ScenarioOffsets |->
     [Size |-> 10, TimeDelta |-> 3000, CompositionTimeOffset |-> ScenarioOffsets[i],
      Sync |-> (i - 1) \in keyframes]]

ScenarioChunks == [c \in 1..3 |-> [DataOffset |-> 1000 * c, SamplesPerChunk |-> 2]]

ScenarioFiles ==
  {File(ScenarioMedia({0} \cup later), ScenarioChunks) : later \in SUBSET (1..5)}

ScenarioTargets == {6000}

\* NewFromReadSeeker on one of the given containers
InitOn(files) ==
  /\ probe \in files
  /\ track = FindVideoTrack(probe.Tracks, -1, 1)
  /\ read = ZeroRead
  /\ spspps = NilSlice
  /\ stss = NilSlice
  /\ starttime = 0
  /\ last = [op |-> "New", err |-> "nil", moved |-> FALSE, force |-> FALSE,
             out |-> ZeroInfo, from |-> 0]
  /\ hist = <<>>
  /\ origin = "start"
  /\ eos = FALSE

InitScenario == InitOn(ScenarioFiles)

NextScenario ==
  \/ NextSample
  \/ \E timestamp \in ScenarioTargets, force \in BOOLEAN, scanFails \in ScanOutcomes :
       Seek(timestamp, force, scanFails)
  \/ \E extractFails \in BOOLEAN : Initialize(extractFails)

SpecScenario == InitScenario /\ [][NextScenario]_vars

\* the cursor Seek commits for the keyframe at sample k (0-based) of the scenario
ScenarioKeyframe(k) ==
  [chunkIdx |-> k \div 2, sampleIdx |-> k, sampleEnd |-> 2 * (k \div 2) + 2,
   decodingTime |-> 3000 * k,
   dataOffset |-> ScenarioChunks[(k \div 2) + 1].DataOffset + 10 * (k % 2)]

\* C14 as claimed: in the scenario Initialize sets _starttime to -3000 and
\* Seek(6000, true) scans for the adjusted target 9000
C14_ScenarioAsClaimed ==
  [][/\ (last'.op = "Initialize" /\ last'.err = "nil") => starttime' = -3000
     /\ (SeekStep(6000, TRUE) /\ ~spspps.nil) => 6000 + starttime = 9000]_vars

(***************************************************************************)
(* C14 as amended: in the scenario Initialize sets _starttime to 0 (the    *)
(* first sample has composition offset 0), Seek(6000, true) scans for the  *)
(* adjusted target 6000, matches sample 1 and puts the cursor at the last  *)
(* keyframe at or before it.                                               *)
(***************************************************************************)
C14_ScenarioStartsAtZero ==
  [][/\ (last'.op = "Initialize" /\ last'.err = "nil") => starttime' = 0
     /\ (SeekStep(6000, TRUE) /\ ~spspps.nil)
        => /\ 6000 + starttime = 6000
           /\ last'.err = "nil" /\ last'.moved
           /\ SeekScan(Selected, IndexInUse, 6000 + starttime, TRUE, read).m = 1
           /\ read' = ScenarioKeyframe(IF 2 \in Range(stss'.v) THEN 1 ELSE 0)]_vars

C14_Witness ==
  /\ last.op = "Seek" /\ last.err = "nil" /\ last.moved /\ last.force
  /\ ~spspps.nil /\ starttime = 0
  /\ Len(Selected.Samples) = 6 /\ read = ScenarioKeyframe(0)

(***************************************************************************)
(* C15: when the scan of Seek(t, force) matches sample m with the          *)
(* candidate keyframe position c, Seek returns moved = false and leaves    *)
(* the cursor as it is if and only if force is false and c.sampleIdx <=    *)
(* the cursor's sampleIdx <= m + 1; in every other case it returns moved = *)
(* true and the cursor is c.  A step is a Seek(t, force) whose scan has     *)
(* matched when it leaves the cursor and returns the flag of that call.    *)
(***************************************************************************)
C15_SuppressionBoundary ==
  [][\A t \in Targets, f \in BOOLEAN :
       LET res == SeekScan(Selected, IndexInUse, t + starttime, f, read)
           inside == /\ res.idr.sampleIdx <= read.sampleIdx
                     /\ read.sampleIdx <= res.m + 1
       IN (track # 0 /\ last'.op = "Seek" /\ last'.force = f
           /\ last'.err = "nil" /\ res.found
           /\ read' = res.read /\ last'.moved = res.moved)
          => /\ last'.moved <=> ~(~f /\ inside)
             /\ read' = IF ~f /\ inside THEN read ELSE res.idr]_vars

\* an unforced Seek has moved the cursor forward to a later keyframe
C15_Witness ==
  /\ last.op = "Seek" /\ last.err = "nil" /\ last.moved /\ ~last.force
  /\ read.sampleIdx > 0 /\ hist = <<>>

(***************************************************************************)
(* C16: the decode time in the position Seek commits for sample k is the   *)
(* decode time the cursor has when sequential NextSample calls from the    *)
(* initial state bring it to sample k: the sum of the deltas of the        *)
(* samples before k, those of size 0 among them.                           *)
(***************************************************************************)
C16_SeekDecodeTime ==
  SeekMoved => read.decodingTime = Deltas(Selected, 0, read.sampleIdx - 1)

(***************************************************************************)
(* C17: after a successful Initialize, _starttime is the least of (decode  *)
(* time before sample i + composition offset of sample i) over the samples *)
(* from the first up to the first one with composition offset 0, and 0     *)
(* when the track has no samples.                                          *)
(***************************************************************************)
\* the samples (from 1) Initialize scans
Scanned(samples) == 1..(WindowEnd(samples) + 1)

LeastStart(trk) ==
  IF trk.Samples = <<>> THEN 0
  ELSE SetMin({Deltas(trk, 0, i - 2) + trk.Samples[i].CompositionTimeOffset :
                 i \in Scanned(trk.Samples)})

C17_StartTimeIsLeast ==
  (last.op = "Initialize" /\ last.err = "nil") => starttime = LeastStart(Selected)

(***************************************************************************)
(* C18: loadTrackInfo keeps a keyframe-index or codec-configuration box if *)
(* and only if the last track header before it in the list carries the     *)
(* target track id (the last kept box of a kind is the one stored), and it *)
(* fails with "avcC not found" exactly when it has kept no codec-          *)
(* configuration box.                                                      *)
(***************************************************************************)
SetMax(S) == CHOOSE x \in S : \A y \in S : x >= y

\* the boxes of the given type that follow a header of the track, up to the
\* next header
Kept(boxes, trackid, type) ==
  {i \in DOMAIN boxes :
     /\ boxes[i].Type = type
     /\ \E h \in 1..(i - 1) :
          /\ boxes[h].Type = "tkhd" /\ boxes[h].TrackID = trackid
          /\ \A j \in (h + 1)..(i - 1) : boxes[j].Type # "tkhd"}

C18_LoaderKeepsTargetBoxes ==
  [][(track # 0 /\ last'.op = "Initialize" /\ last'.err # "extract failed")
     => LET boxes == probe.Boxes
            index == Kept(boxes, Selected.TrackID, "stss")
            config == Kept(boxes, Selected.TrackID, "avcC")
        IN /\ last'.err = "avcC not found" <=> config = {}
           /\ last'.err \in {"nil", "avcC not found"}
           /\ stss' = IF index = {} THEN stss
                      ELSE Slice(boxes[SetMax(index)].SampleNumber)
           /\ spspps' = IF config = {} THEN spspps
                        ELSE Slice(boxes[SetMax(config)].NALUnits)]_vars

\* the boxes of the third track have been kept, those of the others passed over
C18_Witness ==
  /\ last.op = "Initialize" /\ last.err = "nil" /\ track # 0
  /\ Selected.TrackID = 3 /\ stss = Slice(<<2>>) /\ spspps = Slice(<<31, 32>>)

(***************************************************************************)
(* C19: for targets t1 <= t2 whose forced scans both match, the sampleIdx  *)
(* of the cursor of t1 is at most that of t2; and the cursor a successful  *)
(* Seek(t1, true) sets is that cursor, whatever the cursor before the call *)
(* (it depends on the target and the tables only).                         *)
(* The targets of a step are those whose scan from the cursor before it    *)
(* ends in the cursor after it.                                            *)
(***************************************************************************)
C19_SeekMonotone ==
  /\ [](track # 0
        => \A t1, t2 \in Targets :
             LET first == SeekScan(Selected, IndexInUse, t1 + starttime, TRUE, ZeroRead)
                 second == SeekScan(Selected, IndexInUse, t2 + starttime, TRUE, ZeroRead)
             IN (t1 <= t2 /\ first.found /\ second.found)
                => first.read.sampleIdx <= second.read.sampleIdx)
  /\ [][(track # 0 /\ last'.op = "Seek" /\ last'.force /\ last'.err = "nil")
        => \A t1 \in Targets :
             LET res == SeekScan(Selected, stss'.v, t1 + starttime, TRUE, read)
             IN (res.found /\ read' = res.read)
                => /\ last'.moved
                   /\ read' = SeekScan(Selected, stss'.v, t1 + starttime,
                                       TRUE, ZeroRead).read]_vars

\* a forced Seek has put the cursor at a keyframe after the first two samples
C19_Witness ==
  /\ last.op = "Seek" /\ last.err = "nil" /\ last.moved /\ last.force
  /\ read.sampleIdx >= 2

(***************************************************************************)
(* The tracks of C20: the sample counts of the chunks sum to the length of *)
(* the sample table.  A chunk holds one or more of the samples.            *)
(***************************************************************************)
\* the chunk tables of up to MaxChunks chunks that hold n samples in all
CountsFor(n) ==
  {counts \in SeqsUpTo(1..n, MaxChunks) : SumOver(counts, 1, Len(counts)) = n}

CountedChunks(counts) ==
  [c \in DOMAIN counts |-> [DataOffset |-> 200 + 10 * c, SamplesPerChunk |-> counts[c]]]

ExactFiles ==
  {File(pair[1], CountedChunks(pair[2])) :
     pair \in UNION {{<<media, counts>> : counts \in CountsFor(Len(media))} :
                       media \in SeqsUpTo(MediaKinds, MaxSamples)}}

InitExact == InitOn(ExactFiles)

SpecExact == InitExact /\ [][NextTrack]_vars

(***************************************************************************)
(* C20: on such a track, after any NextSample and Seek calls, chunkIdx is  *)
(* at most the number of chunks and sampleIdx at most the number of        *)
(* samples; when sampleEnd is not 0, chunkIdx is a chunk of the table,     *)
(* sampleEnd is the number of samples of the chunks up to it, sampleIdx is *)
(* from the chunk's first sample to sampleEnd, and dataOffset is the       *)
(* chunk's data offset plus the sizes of its samples before sampleIdx.     *)
(***************************************************************************)
C20_CursorInvariant ==
  track # 0
  => LET trk == Selected
         c == read.chunkIdx + 1
     IN /\ read.chunkIdx <= Len(trk.Chunks)
        /\ read.sampleIdx <= Len(trk.Samples)
        /\ read.sampleEnd # 0
           => /\ read.chunkIdx < Len(trk.Chunks)
              /\ read.sampleEnd = FirstOfChunk(trk, c + 1)
              /\ FirstOfChunk(trk, c) <= read.sampleIdx
              /\ read.sampleIdx <= read.sampleEnd
              /\ read.dataOffset =
                   trk.Chunks[c].DataOffset
                   + SumOver([i \in DOMAIN trk.Samples |-> trk.Samples[i].Size],
                             FirstOfChunk(trk, c) + 1, read.sampleIdx)

\* after a Seek the cursor is inside the second chunk, past its first sample
C20_Witness ==
  /\ origin = "seek" /\ Yielded
  /\ read.chunkIdx >= 1 /\ read.sampleEnd # 0
  /\ read.sampleIdx > FirstOfChunk(Selected, read.chunkIdx + 1)
  /\ read.sampleIdx < read.sampleEnd
====
